---- MODULE Spec2Model ----
(***************************************************************************)
(* The scenario generation engines of ns3-simulations/airport.cc and       *)
(* ns3-simulations/warehouse.cc: per-scenario tier sizes, topology         *)
(* construction, per-camera workload assignment, the two flows derived for *)
(* every camera, the backend run, the export of config.json and the        *)
(* teardown, as one sequential batch loop.                                 *)
(*                                                                         *)
(* Units.  A double holding seconds is an integer number of ticks of       *)
(* 0.1 ms (1.0 s = 10000 ticks).  A uint32_t / uint64_t is the sequence of *)
(* its bytes, least significant first (4 / 8 bytes), so that 32-bit        *)
(* wrap-around is kept although TLC's integers stop below 2^31.            *)
(***************************************************************************)
EXTENDS Integers, Sequences, FiniteSets, TLC

\* ---------------------------------------------------------------- bounds
\* Largest value of the command line's --scenarios in the batch runs checked.
MaxScenarios == 3
\* Seeds 0..MaxSeed stand for the values std::random_device may return.
MaxSeed == 1
\* Scenario indices 0..MaxIndex are fed to the tier-size formulas alone.
MaxIndex == 110

VARIABLES
    program,        \* which generator runs: "airport" or "warehouse"
    build,          \* what this build does on (uint32_t) of a negative double
    scenarioCount,  \* command-line value
    scenario,       \* the batch loop's counter
    pc,             \* position inside main()
    gen,            \* state of the process-wide std::mt19937
    num,            \* numCameras, numAccessNodes, ... of the current scenario
    nodeList,       \* the backend's global node list; a node's id is its index
    nodes,          \* the NodeContainers of the current scenario (node ids)
    wifi,           \* nodes attached to the shared wireless channel
    p2pLinks,       \* installed point-to-point links, <<a, b>>
    configs,        \* std::vector<CameraConfig>
    draws,          \* history: the raw normal draws behind each CameraConfig
    i,              \* position of the camera loop that is running
    apps,           \* the OnOff applications installed on the nodes
    now,            \* simulated time reached by the backend (ticks)
    outputs,        \* the config.json documents written so far
    destroyed       \* history: number of Simulator::Destroy() calls so far

vars == <<program, build, scenarioCount, scenario, pc, gen, num, nodeList, nodes,
          wifi, p2pLinks, configs, draws, i, apps, now, outputs, destroyed>>

\* ------------------------------------------------ fixed-width unsigned ints
RECURSIVE ToBytes(_, _)
\* The w low bytes of n in two's complement (TLC's \div floors, % is >= 0).
ToBytes(n, w) == IF w = 0 THEN <<>> ELSE <<n % 256>> \o ToBytes(n \div 256, w - 1)

U32(n) == ToBytes(n, 4)

RECURSIVE BytesLess(_, _)
\* a < b as unsigned integers of the same width.
BytesLess(a, b) ==
    IF a = <<>> THEN FALSE
    ELSE LET n == Len(a)
         IN  \/ a[n] < b[n]
             \/ a[n] = b[n] /\ BytesLess(SubSeq(a, 1, n - 1), SubSeq(b, 1, n - 1))

\* std::max(a, b) on uint32_t: (a < b) ? b : a.
U32Max(a, b) == IF BytesLess(a, b) THEN b ELSE a

RECURSIVE MulBytes(_, _, _)
\* a * m + carry, truncated to the width of a (the carry out is dropped).  The
\* singleton set binds the intermediate value t once for its two uses.
MulBytes(a, m, carry) ==
    IF a = <<>> THEN <<>>
    ELSE CHOOSE r \in {<<t % 256>> \o MulBytes(Tail(a), m, t \div 256) :
                          t \in {a[1] * m + carry}} : TRUE

RECURSIVE DivBytes(_, _)
\* Quotient and remainder of a by the positive integer d.
DivBytes(a, d) ==
    IF a = <<>> THEN [q |-> <<>>, r |-> 0]
    ELSE CHOOSE r \in {[q |-> <<(high.r * 256 + a[1]) \div d>> \o high.q,
                        r |-> (high.r * 256 + a[1]) % d] :
                          high \in {DivBytes(Tail(a), d)}} : TRUE

\* Zero-extension of a uint32_t to 64 bits.
Widen(a) == a \o <<0, 0, 0, 0>>

\* ------------------------------------------------------- program constants
\* Seconds(1.0): start of every frame flow.
AppStart == 10000
\* Seconds(20.0): stop of every flow.
AppStop == 200000
\* Simulator::Stop(Seconds(22.0)).
SimStop == 220000
\* The divisor 0.5 (seconds) of the result flows' rate.
ResultWindow == 5000
\* std::max(0.001, ...) of GetInferenceDelay.
DelayFloor == 10
\* std::max(0.01, ...) of GetFrameInterval.
IntervalFloor == 100
\* std::max(500u, ...) of GetFrameSize.
FrameSizeFloor == 500
\* std::max(50u, ...) of GetResultSize.
ResultSizeFloor == 50
\* The warehouse's literal frameSize and frameInterval (0.1 s).
WarehouseFrameSize == 1500
WarehouseFrameInterval == 1000

Programs == {"airport", "warehouse"}
\* (uint32_t) of a double below zero is undefined: x86-64 keeps the low 32 bits
\* of the 64-bit truncation, AArch64 saturates to 0, AVX-512 gives all ones.
Builds == {"wrap", "zero", "ones"}

models == <<"small", "medium", "heavy">>
procs == <<"camera", "access", "aggregation", "core">>

\* ------------------------------------------------------------ random source
\* std::mt19937 as a deterministic generator over a small state space: the
\* whole stream is fixed by the seed, and every draw advances it.
NextGen(g) == (5 * g + 3) % 256

\* std::uniform_int_distribution<int> procDist(0, 3).
procDist(g) == g % 4

\* Standard scores a normal draw takes here: the mean, one deviation up, draws
\* that land on zero and below it, and a far upper tail.
ZValues == <<0, 1, -5, -10, -12, -20, 800>>

\* std::normal_distribution<double>(base, pct/100 * base)(gen).
NormalDraw(base, pct, g) ==
    base + ((base * pct) \div 100) * ZValues[((g \div 4) % Len(ZValues)) + 1]

\* (uint32_t) of a double with an integral value d < 2^31.
ToUint32(d, b) ==
    IF d >= 0 THEN U32(d)
    ELSE CASE b = "wrap" -> U32(d)
           [] b = "zero" -> U32(0)
           [] OTHER      -> <<255, 255, 255, 255>>

\* ------------------------------------------------------------ airport utils
InferenceDelayBase(model) ==
    IF model = "small" THEN 100 ELSE IF model = "medium" THEN 500 ELSE 1200

ResultSizeBase(model) ==
    IF model = "small" THEN 200 ELSE IF model = "medium" THEN 500 ELSE 1200

FrameSizeBase(model) ==
    IF model = "small" THEN 1000 ELSE IF model = "medium" THEN 1500 ELSE 2000

FrameIntervalBase(processing) ==
    IF processing = "camera" THEN 1500
    ELSE IF processing = "access" THEN 1000
    ELSE IF processing = "aggregation" THEN 800
    ELSE 500

\* std::max(a, b) on double: (a < b) ? b : a.
MaxDouble(a, b) == IF a < b THEN b ELSE a

DelayDraw(model, g) == NormalDraw(InferenceDelayBase(model), 20, g)
ResultSizeDraw(model, g) == NormalDraw(ResultSizeBase(model), 15, g)
FrameSizeDraw(model, g) == NormalDraw(FrameSizeBase(model), 10, g)
FrameIntervalDraw(processing, g) == NormalDraw(FrameIntervalBase(processing), 5, g)

GetInferenceDelay(model, g) == MaxDouble(DelayFloor, DelayDraw(model, g))

GetResultSize(model, g, b) ==
    U32Max(U32(ResultSizeFloor), ToUint32(ResultSizeDraw(model, g), b))

\* Faulty variant: the floor of 500 bytes left out.
GetFrameSizeNoFloor(model, g, b) == ToUint32(FrameSizeDraw(model, g), b)

GetFrameSize(model, g, b) ==
    U32Max(U32(FrameSizeFloor), ToUint32(FrameSizeDraw(model, g), b))

GetFrameInterval(processing, g) ==
    MaxDouble(IntervalFloor, FrameIntervalDraw(processing, g))

\* ---------------------------------------------------------- warehouse utils
WarehouseInferenceDelay(model) ==
    IF model = "small" THEN 100 ELSE IF model = "medium" THEN 500 ELSE 1200

WarehouseResultSize(model) ==
    IF model = "small" THEN U32(200) ELSE IF model = "medium" THEN U32(500) ELSE U32(1200)

WarehouseModel(k) == IF k % 3 = 0 THEN "heavy" ELSE IF k % 2 # 0 THEN "medium" ELSE "small"

WarehouseProc(k) == IF k % 3 = 0 THEN "cloud" ELSE IF k % 2 # 0 THEN "edge" ELSE "camera"

\* ------------------------------------------------------------- tier sizes
\* Faulty variant: the camera range taken as 50 instead of 51.
AirportTierSizesShortRange(s) ==
    [numCameras     |-> 150 + (s % 50),
     numAccessNodes |-> 10 + (s % 6),
     numAggNodes    |-> 4 + (s % 3),
     numCoreNodes   |-> 2,
     numCloudNodes  |-> 1]

AirportTierSizes(s) ==
    [numCameras     |-> 150 + (s % 51),
     numAccessNodes |-> 10 + (s % 6),
     numAggNodes    |-> 4 + (s % 3),
     numCoreNodes   |-> 2,
     numCloudNodes  |-> 1]

WarehouseTierSizes(s) ==
    [numCameras |-> 6 + (s % 5),
     numEdges   |-> 2 + (s % 2),
     numClouds  |-> 2,
     numControl |-> 1]

\* Before the loop body has computed them the sizes are not in scope.
NoSizes(p) ==
    IF p = "airport"
    THEN [numCameras |-> 0, numAccessNodes |-> 0, numAggNodes |-> 0,
          numCoreNodes |-> 0, numCloudNodes |-> 0]
    ELSE [numCameras |-> 0, numEdges |-> 0, numClouds |-> 0, numControl |-> 0]

\* ---------------------------------------------------------------- topology
\* NodeContainer::Create(n) when the global node list already holds `first`
\* nodes: the new nodes take the next n ids.
Create(first, n) == [k \in 1..n |-> first + k - 1]

\* NodeContainer::Get(k), k counted from 0.
Get(container, k) == container[k + 1]

\* The entries Create adds to the global node list.
Created(tier, n, s) == [k \in 1..n |-> [tier |-> tier, scenario |-> s]]

\* Faulty variant: every lower node linked to the first upper node only.
FanOutToFirst(lower, upper) ==
    {<<Get(lower, a), Get(upper, 0)>> : a \in 0..(Len(lower) - 1)}

\* for i < |lower| for j < |upper|: p2p.Install(lower.Get(i), upper.Get(j)).
FanOut(lower, upper) ==
    {<<Get(lower, a), Get(upper, b)>> : a \in 0..(Len(lower) - 1), b \in 0..(Len(upper) - 1)}

NoNodes(p) ==
    IF p = "airport"
    THEN [cameras |-> <<>>, accessNodes |-> <<>>, aggNodes |-> <<>>,
          coreNodes |-> <<>>, cloud |-> <<>>]
    ELSE [cameras |-> <<>>, edges |-> <<>>, clouds |-> <<>>, control |-> <<>>]

Range(f) == {f[k] : k \in DOMAIN f}

AirportContainers(first, n) ==
    LET c1 == first + n.numCameras
        c2 == c1 + n.numAccessNodes
        c3 == c2 + n.numAggNodes
        c4 == c3 + n.numCoreNodes
    IN  [cameras     |-> Create(first, n.numCameras),
         accessNodes |-> Create(c1, n.numAccessNodes),
         aggNodes    |-> Create(c2, n.numAggNodes),
         coreNodes   |-> Create(c3, n.numCoreNodes),
         cloud       |-> Create(c4, n.numCloudNodes)]

\* The three link loops of the airport: access x aggregation, aggregation x
\* core, and every core node to cloud.Get(0).
AirportLinks(c) ==
    FanOut(c.accessNodes, c.aggNodes)
      \cup FanOut(c.aggNodes, c.coreNodes)
      \cup {<<Get(c.coreNodes, a), Get(c.cloud, 0)>> : a \in 0..(Len(c.coreNodes) - 1)}

WarehouseContainers(first, n) ==
    LET c1 == first + n.numCameras
        c2 == c1 + n.numEdges
        c3 == c2 + n.numClouds
    IN  [cameras |-> Create(first, n.numCameras),
         edges   |-> Create(c1, n.numEdges),
         clouds  |-> Create(c2, n.numClouds),
         control |-> Create(c3, n.numControl)]

\* The edge x cloud loop of the warehouse, then the one link
\* p2p.Install(clouds.Get(0), control.Get(0)).
WarehouseLinks(c) ==
    FanOut(c.edges, c.clouds) \cup {<<Get(c.clouds, 0), Get(c.control, 0)>>}

\* ------------------------------------------------------------------- flows
\* DataRate(bytes8 / seconds): the uint32_t product is converted to double,
\* divided, and the quotient is truncated to the uint64_t bits per second.
\* `ticks` is the divisor in ticks of 0.1 ms.
DataRate(bytes8, ticks) ==
    CHOOSE bps \in {DivBytes(scaled, ticks).q :
                       scaled \in {MulBytes(wide, 10000, 0) : wide \in {Widen(bytes8)}}} : TRUE

\* Faulty variant: the conversion from bytes to bits left out.
TimesOne(size) == size

\* c.frameSize * 8 and c.resultSize * 8: unsigned 32-bit multiplication.
Times8(size) == MulBytes(size, 8, 0)

AirportProcNode(c) ==
    IF c.processing = "camera" THEN Get(nodes.cameras, c.id)
    ELSE IF c.processing = "access" THEN Get(nodes.accessNodes, c.accessId)
    ELSE IF c.processing = "aggregation" THEN Get(nodes.aggNodes, c.aggregationId)
    ELSE Get(nodes.coreNodes, c.coreId)

WarehouseProcNode(c) ==
    IF c.processing = "camera" THEN Get(nodes.cameras, c.id)
    ELSE IF c.processing = "edge" THEN Get(nodes.edges, c.edgeId)
    ELSE Get(nodes.clouds, c.cloudId)

\* OnOffHelper src(..dst.., 9000 + c.id); SetConstantRate; Install on the
\* camera; Start(1.0); Stop(20.0).
FrameFlow(c, dst, s) ==
    [kind |-> "frame", camera |-> c.id, node |-> Get(nodes.cameras, c.id),
     remote |-> dst, port |-> 9000 + c.id,
     rate |-> DataRate(Times8(c.frameSize), c.frameInterval),
     size |-> c.frameSize, start |-> AppStart, stop |-> AppStop, scenario |-> s]

\* Faulty variant: the result flow installed on the camera instead of the processing
\* node.
ResultFlowOnCamera(c, procNode, sink, s) ==
    [kind |-> "result", camera |-> c.id, node |-> Get(nodes.cameras, c.id),
     remote |-> sink, port |-> 10000 + c.id,
     rate |-> DataRate(Times8(c.resultSize), ResultWindow),
     size |-> c.resultSize, start |-> AppStart + c.inferenceDelay, stop |-> AppStop,
     scenario |-> s]

\* OnOffHelper res(..sink.., 10000 + c.id); SetConstantRate; Install on the
\* processing node; Start(1.0 + c.inferenceDelay); Stop(20.0).
ResultFlow(c, procNode, sink, s) ==
    [kind |-> "result", camera |-> c.id, node |-> procNode,
     remote |-> sink, port |-> 10000 + c.id,
     rate |-> DataRate(Times8(c.resultSize), ResultWindow),
     size |-> c.resultSize, start |-> AppStart + c.inferenceDelay, stop |-> AppStop,
     scenario |-> s]

\* -------------------------------------------------------------------- Init
\* State on entry to the batch loop: the command line is parsed, the
\* generator is seeded from std::random_device, nothing is built.
Init ==
    /\ program \in Programs
    /\ build \in Builds
    /\ scenarioCount \in 0..MaxScenarios
    /\ gen \in 0..MaxSeed
    /\ scenario = 0
    /\ pc = "LoopHead"
    /\ num = NoSizes(program)
    /\ nodeList = <<>>
    /\ nodes = NoNodes(program)
    /\ wifi = {}
    /\ p2pLinks = {}
    /\ configs = <<>>
    /\ draws = <<>>
    /\ i = 0
    /\ apps = <<>>
    /\ now = 0
    /\ outputs = <<>>
    /\ destroyed = 0

\* ----------------------------------------------------------------- airport
\* for (scenario = 0; scenario < scenarioCount; ...) and the PARAMETERS PER
\* SCENARIO block; when the test fails main() returns.
AirportScenarioParams ==
    /\ program = "airport" /\ pc = "LoopHead"
    /\ IF scenario < scenarioCount
       THEN num' = AirportTierSizes(scenario) /\ pc' = "Build"
       ELSE num' = num /\ pc' = "Done"
    /\ UNCHANGED <<program, build, scenarioCount, scenario, gen, nodeList, nodes, wifi,
                   p2pLinks, configs, draws, i, apps, now, outputs, destroyed>>

\* NODE CREATION, WIFI, P2P LINKS, INTERNET STACK, MOBILITY.
AirportBuildTopology ==
    /\ program = "airport" /\ pc = "Build"
    /\ LET c == AirportContainers(Len(nodeList), num)
       IN  /\ nodes' = c
           /\ nodeList' = nodeList
                  \o Created("camera", num.numCameras, scenario)
                  \o Created("access", num.numAccessNodes, scenario)
                  \o Created("aggregation", num.numAggNodes, scenario)
                  \o Created("core", num.numCoreNodes, scenario)
                  \o Created("cloud", num.numCloudNodes, scenario)
           /\ wifi' = Range(c.cameras) \cup Range(c.accessNodes)
           /\ p2pLinks' = AirportLinks(c)
    /\ configs' = <<>> /\ draws' = <<>> /\ i' = 0
    /\ pc' = "Assign"
    /\ UNCHANGED <<program, build, scenarioCount, scenario, gen, num, apps, now,
                   outputs, destroyed>>

\* Faulty variant: aggregationId computed from the core tier's size.
AirportCameraConfigWrongTier(k, n, g, b) ==
    LET model == models[(k % 3) + 1]
        proc  == procs[procDist(g) + 1]
        g1    == NextGen(g)
        g2    == NextGen(g1)
        g3    == NextGen(g2)
        g4    == NextGen(g3)
    IN  [id             |-> k,
         accessId       |-> k % n.numAccessNodes,
         aggregationId  |-> k % n.numCoreNodes,
         coreId         |-> k % n.numCoreNodes,
         processing     |-> proc,
         model          |-> model,
         frameSize      |-> GetFrameSize(model, g1, b),
         frameInterval  |-> GetFrameInterval(proc, g2),
         inferenceDelay |-> GetInferenceDelay(model, g3),
         resultSize     |-> GetResultSize(model, g4, b),
         scenario       |-> scenario]

\* The CameraConfig that iteration k of the CAMERA CONFIGS loop pushes when
\* the generator is in state g.  procDist is drawn first, then the four
\* initializers in the order of the braced list.
AirportCameraConfig(k, n, g, b) ==
    LET model == models[(k % 3) + 1]
        proc  == procs[procDist(g) + 1]
        g1    == NextGen(g)
        g2    == NextGen(g1)
        g3    == NextGen(g2)
        g4    == NextGen(g3)
    IN  [id             |-> k,
         accessId       |-> k % n.numAccessNodes,
         aggregationId  |-> k % n.numAggNodes,
         coreId         |-> k % n.numCoreNodes,
         processing     |-> proc,
         model          |-> model,
         frameSize      |-> GetFrameSize(model, g1, b),
         frameInterval  |-> GetFrameInterval(proc, g2),
         inferenceDelay |-> GetInferenceDelay(model, g3),
         resultSize     |-> GetResultSize(model, g4, b),
         scenario       |-> scenario]

\* History only: the raw draws behind AirportCameraConfig(k, n, g, b).
AirportDraws(k, g) ==
    LET model == models[(k % 3) + 1]
        proc  == procs[procDist(g) + 1]
        g1    == NextGen(g)
        g2    == NextGen(g1)
        g3    == NextGen(g2)
        g4    == NextGen(g3)
    IN  [frameSize      |-> FrameSizeDraw(model, g1),
         frameInterval  |-> FrameIntervalDraw(proc, g2),
         inferenceDelay |-> DelayDraw(model, g3),
         resultSize     |-> ResultSizeDraw(model, g4)]

\* One iteration of for (i = 0; i < numCameras; i++), or its exit.
AirportAssignWorkload ==
    /\ program = "airport" /\ pc = "Assign"
    /\ IF i < num.numCameras
       THEN /\ configs' = Append(configs, AirportCameraConfig(i, num, gen, build))
            /\ draws' = Append(draws, AirportDraws(i, gen))
            /\ gen' = NextGen(NextGen(NextGen(NextGen(NextGen(gen)))))
            /\ i' = i + 1
            /\ pc' = pc
       ELSE /\ i' = 0 /\ pc' = "FrameFlows"
            /\ UNCHANGED <<configs, draws, gen>>
    /\ UNCHANGED <<program, build, scenarioCount, scenario, num, nodeList, nodes, wifi,
                   p2pLinks, apps, now, outputs, destroyed>>

\* One iteration of the FRAME FLOWS loop over configs, or its exit.
AirportFrameFlows ==
    /\ program = "airport" /\ pc = "FrameFlows"
    /\ IF i < Len(configs)
       THEN LET c == configs[i + 1]
            IN  /\ apps' = Append(apps, FrameFlow(c, AirportProcNode(c), scenario))
                /\ i' = i + 1 /\ pc' = pc
       ELSE apps' = apps /\ i' = 0 /\ pc' = "ResultFlows"
    /\ UNCHANGED <<program, build, scenarioCount, scenario, gen, num, nodeList, nodes,
                   wifi, p2pLinks, configs, draws, now, outputs, destroyed>>

\* One iteration of the RESULT FLOWS loop over configs, or its exit.
AirportResultFlows ==
    /\ program = "airport" /\ pc = "ResultFlows"
    /\ IF i < Len(configs)
       THEN LET c == configs[i + 1]
            IN  /\ apps' = Append(apps, ResultFlow(c, AirportProcNode(c),
                                                   Get(nodes.cloud, 0), scenario))
                /\ i' = i + 1 /\ pc' = pc
       ELSE apps' = apps /\ i' = 0 /\ pc' = "Run"
    /\ UNCHANGED <<program, build, scenarioCount, scenario, gen, num, nodeList, nodes,
                   wifi, p2pLinks, configs, draws, now, outputs, destroyed>>

\* The entry of config.json for one camera.
AirportMetaEntry(c) ==
    [id |-> c.id, processing |-> c.processing, model |-> c.model,
     frame_size |-> c.frameSize, frame_interval |-> c.frameInterval,
     inference_delay |-> c.inferenceDelay, result_size |-> c.resultSize]

\* Faulty variant: the export loop stops one camera short.
AirportExportDropLast ==
    /\ program = "airport" /\ pc = "Export"
    /\ outputs' = Append(outputs,
                         [scenario |-> scenario,
                          cameras  |-> [k \in 1..(Len(configs) - 1) |->
                                           AirportMetaEntry(configs[k])]])
    /\ pc' = "Destroy"
    /\ UNCHANGED <<program, build, scenarioCount, scenario, gen, num, nodeList, nodes,
                   wifi, p2pLinks, configs, draws, i, apps, now, destroyed>>

\* OUTPUT: flow.xml and config.json of the scenario's directory.
AirportExport ==
    /\ program = "airport" /\ pc = "Export"
    /\ outputs' = Append(outputs,
                         [scenario |-> scenario,
                          cameras  |-> [k \in 1..Len(configs) |-> AirportMetaEntry(configs[k])]])
    /\ pc' = "Destroy"
    /\ UNCHANGED <<program, build, scenarioCount, scenario, gen, num, nodeList, nodes,
                   wifi, p2pLinks, configs, draws, i, apps, now, destroyed>>

\* --------------------------------------------------------------- warehouse
WarehouseScenarioParams ==
    /\ program = "warehouse" /\ pc = "LoopHead"
    /\ IF scenario < scenarioCount
       THEN num' = WarehouseTierSizes(scenario) /\ pc' = "Build"
       ELSE num' = num /\ pc' = "Done"
    /\ UNCHANGED <<program, build, scenarioCount, scenario, gen, nodeList, nodes, wifi,
                   p2pLinks, configs, draws, i, apps, now, outputs, destroyed>>

WarehouseBuildTopology ==
    /\ program = "warehouse" /\ pc = "Build"
    /\ LET c == WarehouseContainers(Len(nodeList), num)
       IN  /\ nodes' = c
           /\ nodeList' = nodeList
                  \o Created("camera", num.numCameras, scenario)
                  \o Created("edge", num.numEdges, scenario)
                  \o Created("cloud", num.numClouds, scenario)
                  \o Created("control", num.numControl, scenario)
           /\ wifi' = Range(c.cameras) \cup Range(c.edges)
           /\ p2pLinks' = WarehouseLinks(c)
    /\ configs' = <<>> /\ draws' = <<>> /\ i' = 0
    /\ pc' = "Assign"
    /\ UNCHANGED <<program, build, scenarioCount, scenario, gen, num, apps, now,
                   outputs, destroyed>>

WarehouseCameraConfig(k, n) ==
    LET model == WarehouseModel(k)
        proc  == WarehouseProc(k)
    IN  [id             |-> k,
         edgeId         |-> k % n.numEdges,
         cloudId        |-> k % n.numClouds,
         processing     |-> proc,
         model          |-> model,
         frameSize      |-> U32(WarehouseFrameSize),
         frameInterval  |-> WarehouseFrameInterval,
         inferenceDelay |-> WarehouseInferenceDelay(model),
         resultSize     |-> WarehouseResultSize(model),
         scenario       |-> scenario]

WarehouseAssignWorkload ==
    /\ program = "warehouse" /\ pc = "Assign"
    /\ IF i < num.numCameras
       THEN /\ configs' = Append(configs, WarehouseCameraConfig(i, num))
            /\ i' = i + 1 /\ pc' = pc
       ELSE configs' = configs /\ i' = 0 /\ pc' = "FrameFlows"
    /\ UNCHANGED <<program, build, scenarioCount, scenario, gen, num, nodeList, nodes,
                   wifi, p2pLinks, draws, apps, now, outputs, destroyed>>

WarehouseFrameFlows ==
    /\ program = "warehouse" /\ pc = "FrameFlows"
    /\ IF i < Len(configs)
       THEN LET c == configs[i + 1]
            IN  /\ apps' = Append(apps, FrameFlow(c, WarehouseProcNode(c), scenario))
                /\ i' = i + 1 /\ pc' = pc
       ELSE apps' = apps /\ i' = 0 /\ pc' = "ResultFlows"
    /\ UNCHANGED <<program, build, scenarioCount, scenario, gen, num, nodeList, nodes,
                   wifi, p2pLinks, configs, draws, now, outputs, destroyed>>

WarehouseResultFlows ==
    /\ program = "warehouse" /\ pc = "ResultFlows"
    /\ IF i < Len(configs)
       THEN LET c == configs[i + 1]
            IN  /\ apps' = Append(apps, ResultFlow(c, WarehouseProcNode(c),
                                                   Get(nodes.control, 0), scenario))
                /\ i' = i + 1 /\ pc' = pc
       ELSE apps' = apps /\ i' = 0 /\ pc' = "Run"
    /\ UNCHANGED <<program, build, scenarioCount, scenario, gen, num, nodeList, nodes,
                   wifi, p2pLinks, configs, draws, now, outputs, destroyed>>

WarehouseMetaEntry(c) ==
    [id |-> c.id, processing |-> c.processing, model |-> c.model,
     inference_delay |-> c.inferenceDelay, result_size |-> c.resultSize]

WarehouseExport ==
    /\ program = "warehouse" /\ pc = "Export"
    /\ outputs' = Append(outputs,
                         [scenario |-> scenario,
                          cameras  |-> [k \in 1..Len(configs) |-> WarehouseMetaEntry(configs[k])]])
    /\ pc' = "Destroy"
    /\ UNCHANGED <<program, build, scenarioCount, scenario, gen, num, nodeList, nodes,
                   wifi, p2pLinks, configs, draws, i, apps, now, destroyed>>

\* ------------------------------------------------------ both generators
\* FlowMonitor install, Simulator::Stop(Seconds(22.0)), Simulator::Run(): a
\* blocking call that returns when simulated time reaches the stop time.
RunSimulation ==
    /\ pc = "Run"
    /\ now' = SimStop
    /\ pc' = "Export"
    /\ UNCHANGED <<program, build, scenarioCount, scenario, gen, num, nodeList, nodes,
                   wifi, p2pLinks, configs, draws, i, apps, outputs, destroyed>>

\* Faulty variant: the teardown leaves the backend's nodes and applications alive.
SimulatorDestroyLeak ==
    /\ pc = "Destroy"
    /\ now' = 0
    /\ nodes' = NoNodes(program) /\ configs' = <<>> /\ draws' = <<>>
    /\ num' = NoSizes(program)
    /\ destroyed' = destroyed + 1
    /\ scenario' = scenario + 1
    /\ pc' = "LoopHead"
    /\ UNCHANGED <<program, build, scenarioCount, gen, i, outputs, nodeList, apps, wifi,
                   p2pLinks>>

\* Simulator::Destroy() and the end of the loop body: the backend releases
\* every node, device and application, the body's locals (the containers,
\* configs) go out of scope, and the loop increments scenario.
SimulatorDestroy ==
    /\ pc = "Destroy"
    /\ nodeList' = <<>> /\ apps' = <<>> /\ wifi' = {} /\ p2pLinks' = {} /\ now' = 0
    /\ nodes' = NoNodes(program) /\ configs' = <<>> /\ draws' = <<>>
    /\ num' = NoSizes(program)
    /\ destroyed' = destroyed + 1
    /\ scenario' = scenario + 1
    /\ pc' = "LoopHead"
    /\ UNCHANGED <<program, build, scenarioCount, gen, i, outputs>>

Next ==
    \/ AirportScenarioParams
    \/ AirportBuildTopology
    \/ AirportAssignWorkload
    \/ AirportFrameFlows
    \/ AirportResultFlows
    \/ AirportExport
    \/ WarehouseScenarioParams
    \/ WarehouseBuildTopology
    \/ WarehouseAssignWorkload
    \/ WarehouseFrameFlows
    \/ WarehouseResultFlows
    \/ WarehouseExport
    \/ RunSimulation
    \/ SimulatorDestroy

Spec == Init /\ [][Next]_vars

\* main() is one sequential thread and every call of the loop body returns
\* (Simulator::Run() returns at the stop time scheduled just before it), so a
\* step that is possible is eventually taken.
FairSpec == Spec /\ WF_vars(Next)

\* The tier-size formulas alone, applied to scenario indices 0..MaxIndex: the
\* loop head is entered with the counter at any index (scenarioCount beyond it
\* or not), and the step taken is the parameter block.
InitParams ==
    /\ program \in Programs
    /\ build \in Builds
    /\ gen \in 0..MaxSeed
    /\ scenario \in 0..MaxIndex
    /\ scenarioCount \in {scenario, scenario + 1}
    /\ pc = "LoopHead"
    /\ num = NoSizes(program)
    /\ nodeList = <<>>
    /\ nodes = NoNodes(program)
    /\ wifi = {}
    /\ p2pLinks = {}
    /\ configs = <<>>
    /\ draws = <<>>
    /\ i = 0
    /\ apps = <<>>
    /\ now = 0
    /\ outputs = <<>>
    /\ destroyed = scenario

NextParams == AirportScenarioParams \/ WarehouseScenarioParams

SpecParams == InitParams /\ [][NextParams]_vars

\* =================================================================== claims

\* C1: for every scenario index, each tier's node count is its base plus
\* (index mod range): airport 150 + i mod 51 cameras, 10 + i mod 6 access,
\* 4 + i mod 3 aggregation, 2 core, 1 cloud; warehouse 6 + i mod 5 cameras,
\* 2 + i mod 2 edges, 2 clouds, 1 control.  So every size lies in
\* [base, base + range - 1], is at least 1, and the sink tier has one node.
C1_TierSizes ==
    pc = "Build" =>
        IF program = "airport"
        THEN /\ num.numCameras = 150 + (scenario % 51)
             /\ num.numAccessNodes = 10 + (scenario % 6)
             /\ num.numAggNodes = 4 + (scenario % 3)
             /\ num.numCoreNodes = 2
             /\ num.numCloudNodes = 1
             /\ num.numCameras \in 150..200
             /\ num.numAccessNodes \in 10..15
             /\ num.numAggNodes \in 4..6
        ELSE /\ num.numCameras = 6 + (scenario % 5)
             /\ num.numEdges = 2 + (scenario % 2)
             /\ num.numClouds = 2
             /\ num.numControl = 1
             /\ num.numCameras \in 6..10
             /\ num.numEdges \in 2..3

\* C1 witness: an index beyond every range, where the camera count has wrapped
\* back to its base and the other tiers have not.
C1_Witness ==
    /\ pc = "Build" /\ program = "airport" /\ scenario = 102
    /\ num.numCameras = 150 /\ num.numAccessNodes = 10 /\ num.numAggNodes = 4

\* The CameraConfig a flow was derived from.
ConfigOf(app) == configs[app.camera + 1]

\* a >= b on uint32_t.
U32AtLeast(a, b) == ~BytesLess(a, b)

C3_AttributeFloors ==
    \A k \in 1..Len(configs) :
        LET c == configs[k]
        IN  /\ c.frameInterval > 0
            /\ c.frameInterval >= IntervalFloor
            /\ U32AtLeast(c.frameSize, U32(500))
            /\ U32AtLeast(c.resultSize, U32(50))
            /\ c.inferenceDelay >= DelayFloor
            /\ program = "warehouse" =>
                   /\ c.frameSize = U32(1500)
                   /\ c.frameInterval = 1000
                   /\ c.inferenceDelay \in {100, 500, 1200}
                   /\ c.resultSize \in {U32(200), U32(500), U32(1200)}

\* C3 witness: one scenario holds a camera whose frame-size draw was negative,
\* one whose result-size draw was negative, one whose delay draw was exactly
\* zero, and one whose interval draw was not positive.
C3_Witness ==
    /\ program = "airport" /\ pc = "FrameFlows"
    /\ \E k \in 1..Len(draws) : draws[k].frameSize < 0
    /\ \E k \in 1..Len(draws) : draws[k].frameSize = 0
    /\ \E k \in 1..Len(draws) : draws[k].resultSize < 0
    /\ \E k \in 1..Len(draws) : draws[k].inferenceDelay = 0
    /\ \E k \in 1..Len(draws) : draws[k].inferenceDelay < 0
    /\ \E k \in 1..Len(draws) : draws[k].frameInterval <= 0

\* The node the claim names for a camera: the node of the tier named by its
\* processing category at index (id mod tier size); the camera itself for
\* "camera".
TierOf(processing) ==
    CASE processing = "camera"      -> nodes.cameras
      [] processing = "access"      -> nodes.accessNodes
      [] processing = "aggregation" -> nodes.aggNodes
      [] processing = "core"        -> nodes.coreNodes
      [] processing = "edge"        -> nodes.edges
      [] processing = "cloud"       -> nodes.clouds

\* C4: the node that receives a camera's ingest flow and originates its
\* result flow is the node of the tier named by the camera's processing
\* category at index (camera id mod size of that tier), a valid index of the
\* tier; for "camera" it is the camera itself.
C4_ModuloPlacement ==
    \A k \in 1..Len(apps) :
        LET c    == ConfigOf(apps[k])
            tier == TierOf(c.processing)
            idx  == c.id % Len(tier)
            proc == IF apps[k].kind = "frame" THEN apps[k].remote ELSE apps[k].node
        IN  /\ Len(tier) >= 1
            /\ idx < Len(tier)
            /\ proc = tier[idx + 1]
            /\ nodeList[proc + 1].tier = c.processing
            /\ c.processing = "camera" => idx = c.id /\ proc = nodes.cameras[c.id + 1]

\* C4 witness: flows are installed for a camera whose id exceeds the size of
\* its processing tier, so the index has wrapped, for a wired-tier category
\* and for the local one.
C4_Witness ==
    /\ \E k \in 1..Len(apps) :
          /\ apps[k].kind = "result"
          /\ ConfigOf(apps[k]).processing \in {"access", "edge"}
          /\ apps[k].camera >= Len(TierOf(ConfigOf(apps[k]).processing))
    /\ \E k \in 1..Len(apps) :
          /\ apps[k].kind = "frame"
          /\ ConfigOf(apps[k]).processing = "camera"
          /\ apps[k].camera > 0

\* The topology of the current scenario stands: built and not yet torn down.
Built == pc \in {"Assign", "FrameFlows", "ResultFlows", "Run", "Export", "Destroy"}

Linked(a, b) == <<a, b>> \in p2pLinks \/ <<b, a>> \in p2pLinks

\* Every node of `lower` has a point-to-point link to every node of `upper`.
FullFanOut(lower, upper) ==
    \A a \in 1..Len(lower) : \A b \in 1..Len(upper) : Linked(lower[a], upper[b])

\* C5: in every built topology each pair of adjacent wired tiers is fully
\* linked and every node of the final wired tier is linked to the single sink
\* (airport: access x aggregation, aggregation x core, core x cloud;
\* warehouse: edge x cloud, cloud x control).
C5_FullFanOut ==
    Built =>
        IF program = "airport"
        THEN /\ FullFanOut(nodes.accessNodes, nodes.aggNodes)
             /\ FullFanOut(nodes.aggNodes, nodes.coreNodes)
             /\ Len(nodes.cloud) = 1
             /\ FullFanOut(nodes.coreNodes, nodes.cloud)
        ELSE /\ FullFanOut(nodes.edges, nodes.clouds)
             /\ Len(nodes.control) = 1
             /\ FullFanOut(nodes.clouds, nodes.control)

\* The single sink node of the current scenario.
Sink == IF program = "airport" THEN nodes.cloud[1] ELSE nodes.control[1]

\* The flows installed for camera id k, by kind.
FlowsOf(k, kind) == {a \in 1..Len(apps) : apps[a].camera = k /\ apps[a].kind = kind}

\* C6: once the flow scheduler has run, exactly two flows exist per camera
\* (2 x numCameras in all): an ingest flow from the camera to its processing
\* node and a result flow from that same node to the single sink; and every
\* flow stops at the run horizon (20.0 s).
C6_TwoFlowsPerCamera ==
    /\ \A a \in 1..Len(apps) : apps[a].stop = AppStop
    /\ pc \in {"Run", "Export", "Destroy"} =>
          /\ Len(apps) = 2 * num.numCameras
          /\ Len(configs) = num.numCameras
          /\ \A k \in 0..(num.numCameras - 1) :
                /\ Cardinality(FlowsOf(k, "frame")) = 1
                /\ Cardinality(FlowsOf(k, "result")) = 1
                /\ \A f \in FlowsOf(k, "frame") : \A r \in FlowsOf(k, "result") :
                      /\ apps[f].node = nodes.cameras[k + 1]
                      /\ apps[f].remote = apps[r].node
                      /\ apps[r].remote = Sink
                      /\ nodeList[apps[r].remote + 1].tier
                            = (IF program = "airport" THEN "cloud" ELSE "control")
                      /\ nodeList[apps[f].remote + 1].tier = configs[k + 1].processing
                      /\ apps[f].stop = apps[r].stop

\* C6 witness: the backend is about to run a scenario whose cameras are
\* processed on wired tiers as well as locally.
C6_Witness ==
    /\ pc = "Run" /\ Len(apps) >= 12
    /\ \E a \in 1..Len(apps) : apps[a].kind = "result" /\ apps[a].node # nodes.cameras[apps[a].camera + 1]
    /\ \E a \in 1..Len(apps) : apps[a].kind = "result" /\ apps[a].node = nodes.cameras[apps[a].camera + 1]

\* The mathematical product 8 * size * 10000 of a uint32_t size, as a 64-bit
\* number: bits per tick-second, with neither wrap-around nor rounding.
ExactBits(size) == MulBytes(MulBytes(Widen(size), 8, 0), 10000, 0)

\* The low 32 bits of 8 * size, times 10000.
WrappedBits(size) == MulBytes(Widen(SubSeq(MulBytes(Widen(size), 8, 0), 1, 4)), 10000, 0)

\* rate is the whole number of bits per second in bits / ticks:
\* rate * ticks <= bits < (rate + 1) * ticks.
IsFloorOf(rate, bits, ticks) ==
    LET low == MulBytes(rate, ticks, 0)
    IN  /\ ~BytesLess(bits, low)
        /\ BytesLess(bits, MulBytes(low, 1, ticks))

\* The divisor of a flow's rate: the frame interval, or the 0.5 s window.
Divisor(app) == IF app.kind = "frame" THEN ConfigOf(app).frameInterval ELSE ResultWindow

\* The size a flow carries: the frame size, or the result size.
Payload(app) == IF app.kind = "frame" THEN ConfigOf(app).frameSize ELSE ConfigOf(app).resultSize

\* C7 as stated: when the backend runs, every ingest rate equals frameSize * 8 / frameInterval and
\* every result rate equals resultSize * 8 / 0.5, exactly, with the payload
\* sizes frameSize and resultSize; equal result sizes give equal result rates.
C7_ExactRates ==
    pc = "Run" =>
        /\ \A a \in 1..Len(apps) :
              /\ apps[a].size = Payload(apps[a])
              /\ MulBytes(apps[a].rate, Divisor(apps[a]), 0) = ExactBits(Payload(apps[a]))
        /\ \A a, b \in 1..Len(apps) :
              (apps[a].kind = "result" /\ apps[b].kind = "result"
                   /\ apps[a].size = apps[b].size)
                  => apps[a].rate = apps[b].rate

\* C7 amended: when the backend runs, every ingest rate is (frameSize * 8 mod 2^32) / frameInterval
\* and every result rate is (resultSize * 8 mod 2^32) / 0.5, each truncated to
\* a whole number of bits per second, with the payload sizes frameSize and
\* resultSize; equal result sizes give equal result rates whatever the
\* inference delays.
C7_TruncatedRates ==
    pc = "Run" =>
        /\ \A a \in 1..Len(apps) :
              /\ apps[a].size = Payload(apps[a])
              /\ IsFloorOf(apps[a].rate, WrappedBits(Payload(apps[a])), Divisor(apps[a]))
        /\ \A a, b \in 1..Len(apps) :
              (apps[a].kind = "result" /\ apps[b].kind = "result"
                   /\ apps[a].size = apps[b].size)
                  => apps[a].rate = apps[b].rate

\* C7 witness: flows are installed with an ingest rate that is not a whole
\* number before truncation, an ingest flow whose frameSize * 8 exceeds 32
\* bits, and two result flows of equal size and different inference delay.
C7_Witness ==
    /\ pc = "Run"
    /\ \E a \in 1..Len(apps) :
          /\ apps[a].kind = "frame"
          /\ ExactBits(apps[a].size) = WrappedBits(apps[a].size)
          /\ MulBytes(apps[a].rate, Divisor(apps[a]), 0) # ExactBits(apps[a].size)
    /\ \E a \in 1..Len(apps) :
          /\ apps[a].kind = "frame"
          /\ ExactBits(apps[a].size) # WrappedBits(apps[a].size)
    /\ \E a, b \in 1..Len(apps) :
          /\ apps[a].kind = "result" /\ apps[b].kind = "result"
          /\ apps[a].size = apps[b].size
          /\ apps[a].start # apps[b].start

\* The order of the phases inside one iteration of the batch loop, and the
\* two exits of the loop head.
PhaseOrder ==
    {<<"LoopHead", "Build">>, <<"Build", "Assign">>, <<"Assign", "FrameFlows">>,
     <<"FrameFlows", "ResultFlows">>, <<"ResultFlows", "Run">>, <<"Run", "Export">>,
     <<"Export", "Destroy">>, <<"Destroy", "LoopHead">>, <<"LoopHead", "Done">>}

\* The number of nodes one scenario creates.
TotalNodes ==
    IF program = "airport"
    THEN num.numCameras + num.numAccessNodes + num.numAggNodes + num.numCoreNodes
             + num.numCloudNodes
    ELSE num.numCameras + num.numEdges + num.numClouds + num.numControl

\* Everything alive belongs to the scenario being processed, nothing is alive
\* between two scenarios, and scenarios 0 .. scenario-1 are exported and torn
\* down, in that order, each once.
C8_State ==
    /\ scenario <= scenarioCount
    /\ destroyed = scenario
    /\ Len(outputs) = (IF pc = "Destroy" THEN scenario + 1 ELSE scenario)
    /\ \A k \in 1..Len(outputs) : outputs[k].scenario = k - 1
    /\ \A k \in 1..Len(nodeList) : nodeList[k].scenario = scenario
    /\ \A k \in 1..Len(configs) : configs[k].scenario = scenario
    /\ \A k \in 1..Len(apps) : apps[k].scenario = scenario
    /\ pc \in {"LoopHead", "Build", "Done"} =>
          nodeList = <<>> /\ configs = <<>> /\ apps = <<>> /\ p2pLinks = {} /\ wifi = {}
    /\ Built => Len(nodeList) = TotalNodes
    /\ pc = "Assign" => apps = <<>> /\ now = 0
    /\ pc \in {"FrameFlows", "ResultFlows", "Run"} =>
          Len(configs) = num.numCameras /\ now = 0
    /\ pc = "Run" => Len(apps) = 2 * num.numCameras
    /\ pc \in {"Export", "Destroy"} => now = SimStop
    /\ pc = "Done" => scenario = scenarioCount /\ Len(outputs) = scenarioCount

\* How far the batch has come: scenario, then phase, then loop position.
PhaseRank(p) ==
    CASE p = "LoopHead" -> 0 [] p = "Build" -> 1 [] p = "Assign" -> 2
      [] p = "FrameFlows" -> 3 [] p = "ResultFlows" -> 4 [] p = "Run" -> 5
      [] p = "Export" -> 6 [] p = "Destroy" -> 7 [] p = "Done" -> 8

C8_Step ==
    /\ pc' # pc => <<pc, pc'>> \in PhaseOrder
    /\ scenario' # scenario => pc = "Destroy" /\ scenario' = scenario + 1
    /\ \/ scenario < scenario'
       \/ scenario = scenario' /\ PhaseRank(pc) < PhaseRank(pc')
       \/ scenario = scenario' /\ pc = pc' /\ i < i'

\* C8: a batch of N scenarios processes the indices 0 .. N-1 in increasing
\* order, each once, each through build, assign, schedule, run, export and
\* teardown in that order; the teardown of one scenario precedes the
\* construction of the next, so nodes, cameras and flows of two scenarios
\* never coexist; and the batch ends after the teardown of scenario N-1.
C8_SequentialBatch ==
    /\ []C8_State
    /\ [][C8_Step]_vars
    /\ <>(pc = "Done" /\ destroyed = scenarioCount)

\* C8 witness: the second scenario of a batch is under construction after the
\* first was exported and torn down.
C8_Witness ==
    /\ pc = "Run" /\ scenario = 1 /\ destroyed = 1 /\ Len(outputs) = 1
    /\ Len(nodeList) > 0

\* The processing-location categories of each generator.
Categories ==
    IF program = "airport" THEN {"camera", "access", "aggregation", "core"}
    ELSE {"camera", "edge", "cloud"}

\* C9: every exported config.json holds exactly numCameras camera entries,
\* in camera-id order, each with a processing value of the generator's fixed
\* category set.
C9_ExportedEntries ==
    \A k \in 1..Len(outputs) :
        LET doc == outputs[k]
            n   == IF program = "airport" THEN 150 + (doc.scenario % 51)
                   ELSE 6 + (doc.scenario % 5)
        IN  /\ Len(doc.cameras) = n
            /\ \A j \in 1..n :
                  /\ doc.cameras[j].id = j - 1
                  /\ doc.cameras[j].processing \in Categories

\* C9 witness: two documents have been written, with different numbers of
\* entries.
C9_Witness ==
    /\ Len(outputs) >= 2
    /\ Len(outputs[1].cameras) # Len(outputs[2].cameras)
    /\ Len(outputs[2].cameras) > 0

RECURSIVE Component(_)
\* The nodes joined to the set S by point-to-point links and the shared
\* wireless channel.
Component(S) ==
    LET step == S \cup {l[2] : l \in {m \in p2pLinks : m[1] \in S}}
                  \cup {l[1] : l \in {m \in p2pLinks : m[2] \in S}}
                  \cup (IF S \cap wifi # {} THEN wifi ELSE {})
    IN  IF step = S THEN S ELSE Component(step)

\* C10: in every built topology, for every camera and every processing
\* category it can be assigned, the ingest destination is reachable from the
\* camera and the sink is reachable from the processing node; in the
\* warehouse this includes cloud node 1, which has no link to the control
\* node of its own.  Links and the channel carry traffic both ways, so two
\* nodes joined to the sink are joined to each other.
C10_Reachable ==
    Built =>
        LET fromSink == Component({Sink})
        IN  \A k \in 1..Len(nodes.cameras) : \A cat \in Categories :
                LET tier == TierOf(cat)
                    proc == tier[((k - 1) % Len(tier)) + 1]
                IN  /\ nodes.cameras[k] \in fromSink
                    /\ proc \in fromSink

\* C10 witness: a warehouse camera is processed at cloud node 1, which has no
\* link to the control node, and its result flow is installed there.
C10_Witness ==
    /\ program = "warehouse" /\ Built
    /\ ~Linked(nodes.clouds[2], nodes.control[1])
    /\ \E a \in 1..Len(apps) : apps[a].kind = "result" /\ apps[a].node = nodes.clouds[2]
====
